---- MODULE Spec2Model ----
(***************************************************************************)
(* CrackScan (src/app.py): the per-image crack analysis pipeline and the   *)
(* batch loop that drives it.                                              *)
(*                                                                         *)
(* An image is a w x h grid of cells <<x, y>>, x the column, y the row.    *)
(* Pixel buffers are kept sparsely: a background colour, the cells that    *)
(* differ from it, and the list of shapes drawn on the buffer since.       *)
(* Densities are exact fractions <<numerator, denominator>>.               *)
(***************************************************************************)
EXTENDS Integers, Sequences, FiniteSets, TLC

VARIABLES
    sensitivity,     \* st.slider("Sensitivity", 20, 200, 100)
    min_area,        \* st.number_input("Min Crack Size", value=100)
    uploaded_files,  \* st.file_uploader(...), a sequence of files
    pc,              \* where the script run is
    idx,             \* position of the for loop in uploaded_files
    results_list,    \* the records appended so far
    heap,            \* the pixel buffers allocated so far, by reference
    img,             \* reference of the decoded image of the last iteration
    img_rgb,         \* reference of its RGB conversion
    overlay,         \* reference of the annotated image
    edges,           \* cv2.Canny's result in the last iteration
    dilated,         \* cv2.dilate's result
    density,         \* the unrounded density
    status,          \* the tier
    color,           \* the tier's draw colour
    count,           \* the region count
    contours,        \* cv2.findContours' result
    drawn            \* the rectangle/putText calls of the last iteration

vars == <<sensitivity, min_area, uploaded_files, pc, idx, results_list, heap,
          img, img_rgb, overlay, edges, dilated, density, status, color,
          count, contours, drawn>>

(***************************************************************************)
(* Bounds of the model.                                                    *)
(***************************************************************************)
MaxBatch == 2   \* longest batch of uploaded files
GridW == 5      \* width of the enumerated small images
MaxSeeds == 2   \* most cells of nonzero gradient in an enumerated image

(***************************************************************************)
(* Geometry.                                                               *)
(***************************************************************************)
Min(S) == CHOOSE a \in S : \A b \in S : a <= b

Max(S) == CHOOSE a \in S : \A b \in S : a >= b

Grid(w, h) == (0 .. w - 1) \X (0 .. h - 1)

\* The 3x3 neighbourhood of a cell, the cell included.
Nbhd8(p) == {<<p[1] + dx, p[2] + dy>> : dx \in {-1, 0, 1}, dy \in {-1, 0, 1}}

\* The 4-neighbourhood of a cell.
Nbhd4(p) == {<<p[1] + 1, p[2]>>, <<p[1] - 1, p[2]>>,
             <<p[1], p[2] + 1>>, <<p[1], p[2] - 1>>}

\* The cells of `within` reachable from `from` through 8-neighbours;
\* `front` are the cells of `from` whose neighbours are still to be visited.
RECURSIVE Reach8(_, _, _)
Reach8(front, from, within) ==
    LET next == ((UNION {Nbhd8(p) : p \in front}) \cap within) \ from
    IN  IF next = {} THEN from ELSE Reach8(next, from \cup next, within)

Grow8(from, within) == Reach8(from, from, within)

\* The same through 4-neighbours.
RECURSIVE Reach4(_, _, _)
Reach4(front, from, within) ==
    LET next == ((UNION {Nbhd4(p) : p \in front}) \cap within) \ from
    IN  IF next = {} THEN from ELSE Reach4(next, from \cup next, within)

Grow4(from, within) == Reach4(from, from, within)

(***************************************************************************)
(* Edge detection (lines 45-48).  A file's `grad` is the gradient          *)
(* magnitude that Canny's Sobel and non-maximum suppression stage derives  *)
(* from the blurred grey image: a function from the cells where it is      *)
(* nonzero.  That stage does not read the thresholds.                      *)
(***************************************************************************)
\* A slider that lowers the threshold as it is raised.
CannyLowInverted(s) == 220 - s

\* threshold1 of cv2.Canny(blurred, sensitivity, sensitivity * 2.5)
CannyLow(s) == s

\* threshold2, as Canny floors it
CannyHigh(s) == (5 * s) \div 2

\* Hysteresis: a cell above low is an edge iff it is 8-connected, through
\* cells above low, to a cell above high.
Canny(grad, s) ==
    LET cand   == {p \in DOMAIN grad : grad[p] > CannyLow(s)}
        strong == {p \in cand : grad[p] > CannyHigh(s)}
    IN  Grow8(strong, cand)

\* cv2.dilate(edges, np.ones((3,3)), iterations=1)
Dilate(e, w, h) == UNION {Nbhd8(p) \cap Grid(w, h) : p \in e}

(***************************************************************************)
(* Risk logic (lines 51-57).                                               *)
(***************************************************************************)
\* a/b < c/d for positive denominators
Less(r, q) == r[1] * q[2] < q[1] * r[2]

Tenth == <<1, 10>>

One == <<1, 1>>

\* (np.sum(dilated > 0) / dilated.size) * 100
Density(d, w, h) == <<Cardinality(d) * 100, w * h>>

GREEN == <<0, 255, 0>>

YELLOW == <<255, 255, 0>>

RED == <<255, 0, 0>>

\* The thresholds with the boundaries on the lower tier's side.
RiskInclusive(d) ==
    IF ~ Less(Tenth, d) THEN [status |-> "SAFE", color |-> GREEN]
    ELSE IF ~ Less(One, d) THEN [status |-> "WARNING", color |-> YELLOW]
    ELSE [status |-> "CRITICAL", color |-> RED]

Risk(d) ==
    IF Less(d, Tenth) THEN [status |-> "SAFE", color |-> GREEN]
    ELSE IF Less(d, One) THEN [status |-> "WARNING", color |-> YELLOW]
    ELSE [status |-> "CRITICAL", color |-> RED]

\* round(density, 4), in units of 1/10000: the nearest, a tie to the even one
Round4(d) ==
    LET n   == d[1] * 10000
        q   == n \div d[2]
        rem == n % d[2]
    IN  IF 2 * rem > d[2] \/ (2 * rem = d[2] /\ q % 2 = 1)
        THEN <<q + 1, 10000>> ELSE <<q, 10000>>

(***************************************************************************)
(* Pixel buffers (lines 41-42, 61, 66-67).                                 *)
(***************************************************************************)
LightBGR == <<200, 210, 220>>

DarkBGR == <<30, 40, 50>>

\* Hershey simplex at scale 0.5: the box of the text "Crack N"
LabelW == 64

LabelH == 12

\* cv2.imdecode(file_bytes, 1): a BGR buffer; the cells of nonzero gradient
\* are the dark ones.  Only called on bytes that decode.
imdecode(bytes) ==
    [w |-> bytes.w, h |-> bytes.h, bg |-> LightBGR,
     px |-> [p \in DOMAIN bytes.grad |-> DarkBGR], ink |-> <<>>]

SwapRB(c) == <<c[3], c[2], c[1]>>

\* cv2.cvtColor(img, cv2.COLOR_BGR2RGB): a new buffer
cvtColorRGB(buf) ==
    [buf EXCEPT !.bg = SwapRB(buf.bg),
                !.px = [p \in DOMAIN buf.px |-> SwapRB(buf.px[p])]]

\* The cells a drawing call may paint, before clipping to the buffer.
\* A rectangle of thickness 2 paints within one cell of its outline.
Covers(op, p) ==
    IF op.kind = "rect"
    THEN /\ p[1] \in (op.x1 - 1) .. (op.x2 + 1)
         /\ p[2] \in (op.y1 - 1) .. (op.y2 + 1)
         /\ ~ (/\ p[1] \in (op.x1 + 2) .. (op.x2 - 2)
               /\ p[2] \in (op.y1 + 2) .. (op.y2 - 2))
    ELSE /\ p[1] \in op.x1 .. op.x2
         /\ p[2] \in op.y1 .. op.y2

\* The colour of cell p of a buffer: the last drawing that covers it, else
\* the decoded pixel.
RECURSIVE InkAt(_, _, _)
InkAt(ink, k, p) ==
    IF k = 0 THEN <<>>
    ELSE IF Covers(ink[k], p) THEN ink[k].color
    ELSE InkAt(ink, k - 1, p)

PixelAt(buf, p) ==
    LET c == InkAt(buf.ink, Len(buf.ink), p)
    IN  IF c # <<>> THEN c
        ELSE IF p \in DOMAIN buf.px THEN buf.px[p] ELSE buf.bg

\* cv2.rectangle(overlay, (x, y), (x + w, y + h), color, 2), on the buffer
\* the reference names
rectangle(hp, ref, r, col) ==
    [hp EXCEPT ![ref].ink = Append(@,
        [kind |-> "rect", x1 |-> r[1], y1 |-> r[2], x2 |-> r[1] + r[3],
         y2 |-> r[2] + r[4], color |-> col, label |-> 0])]

\* cv2.putText(overlay, f"Crack {n}", (x, y-5), FONT_HERSHEY_SIMPLEX, 0.5,
\* color, 1): the origin is the text's bottom-left corner
putText(hp, ref, n, r, col) ==
    [hp EXCEPT ![ref].ink = Append(@,
        [kind |-> "text", x1 |-> r[1], y1 |-> r[2] - 5 - (LabelH - 1),
         x2 |-> r[1] + LabelW - 1, y2 |-> r[2] - 5, color |-> col,
         label |-> n])]

\* overlay = img_rgb, without the copy: the same buffer under a second name.
copyAlias(hp, ref) == [heap |-> hp, ref |-> ref]

\* img_rgb.copy(): the reference of the copy in the extended heap
copy(hp, ref) == [heap |-> Append(hp, hp[ref]), ref |-> Len(hp) + 1]

(***************************************************************************)
(* Region extraction (lines 60-68).                                        *)
(***************************************************************************)
\* The first cell of a set in raster order: topmost row, then leftmost.
RasterFirst(S) ==
    LET y == Min({p[2] : p \in S})
    IN  <<Min({p[1] : p \in {q \in S : q[2] = y}}), y>>

\* The 8-connected components in the order a raster scan meets them.
RECURSIVE Components(_)
Components(d) ==
    IF d = {} THEN <<>>
    ELSE LET c == Grow8({RasterFirst(d)}, d)
         IN  <<c>> \o Components(d \ c)

\* cv2.boundingRect(cnt): <<x, y, w, h>>
boundingRect(c) ==
    LET xs == {p[1] : p \in c}
        ys == {p[2] : p \in c}
    IN  <<Min(xs), Min(ys), Max(xs) - Min(xs) + 1, Max(ys) - Min(ys) + 1>>

\* A component with its holes filled: what its outer contour encloses.
Filled(c) ==
    LET r    == boundingRect(c)
        box  == ((r[1] - 1) .. (r[1] + r[3])) \X ((r[2] - 1) .. (r[2] + r[4]))
        rim  == {p \in box : \/ p[1] \in {r[1] - 1, r[1] + r[3]}
                             \/ p[2] \in {r[2] - 1, r[2] + r[4]}}
    IN  box \ Grow4(rim, box \ c)

Reverse(s) == [k \in 1 .. Len(s) |-> s[Len(s) + 1 - k]]

\* cv2.findContours(dilated, RETR_EXTERNAL, CHAIN_APPROX_SIMPLE): the outer
\* contour of every component that lies in no other component's hole, the
\* last one found first.  A contour is kept as the cells it encloses.
findContours(d) ==
    LET all == Components(d)
        ext == SelectSeq(all, LAMBDA c :
                   \A k \in 1 .. Len(all) :
                       all[k] = c \/ ~ (c \subseteq Filled(all[k])))
    IN  Reverse([k \in 1 .. Len(ext) |-> Filled(ext[k])])

\* Twice cv2.contourArea(cnt): the area of the polygon through the centres
\* of the contour's cells.  A unit square between four cell centres lies
\* inside when its four corners are enclosed, half inside when three are.
contourArea2(cnt) ==
    LET r     == boundingRect(cnt)
        box   == (r[1] .. (r[1] + r[3] - 1)) \X (r[2] .. (r[2] + r[4] - 1))
        in(p) == Cardinality({p, <<p[1] + 1, p[2]>>, <<p[1], p[2] + 1>>,
                              <<p[1] + 1, p[2] + 1>>} \cap cnt)
    IN  2 * Cardinality({p \in box : in(p) = 4})
          + Cardinality({p \in box : in(p) = 3})

\* The cutoff with >= for >.
KeepInclusive(cnt, m) == contourArea2(cnt) >= 2 * m

\* The cutoff turned round: small regions kept, large ones dropped.
KeepBelow(cnt, m) == contourArea2(cnt) < 2 * m

\* if cv2.contourArea(cnt) > min_area
Keep(cnt, m) == contourArea2(cnt) > 2 * m

\* The loop body with `count += 1` outside the if.
DrawStepCountAll(st, cnt, m, ref, col) ==
    IF contourArea2(cnt) > 2 * m
    THEN LET r == boundingRect(cnt)
         IN  [heap  |-> putText(rectangle(st.heap, ref, r, col), ref,
                                st.count + 1, r, col),
              count |-> st.count + 1,
              drawn |-> Append(st.drawn, [cnt |-> cnt, rect |-> r,
                                          label |-> st.count + 1])]
    ELSE [st EXCEPT !.count = @ + 1]

\* The body of `for cnt in contours`, on st = [heap, count, drawn].
DrawStep(st, cnt, m, ref, col) ==
    IF Keep(cnt, m)
    THEN LET r == boundingRect(cnt)
         IN  [heap  |-> putText(rectangle(st.heap, ref, r, col), ref,
                                st.count + 1, r, col),
              count |-> st.count + 1,
              drawn |-> Append(st.drawn, [cnt |-> cnt, rect |-> r,
                                          label |-> st.count + 1])]
    ELSE st

RECURSIVE DrawLoop(_, _, _, _, _, _)
DrawLoop(cs, k, st, m, ref, col) ==
    IF k > Len(cs) THEN st
    ELSE DrawLoop(cs, k + 1, DrawStep(st, cs[k], m, ref, col), m, ref, col)

(***************************************************************************)
(* Inputs.                                                                 *)
(***************************************************************************)
\* Values the slider of line 24 is moved to (it admits 20 .. 200 only).
SliderValues == {20, 100, 200}

\* Values typed into the number input of line 25 (it admits any integer).
MinAreaValues == {-1, 1, 2, 4, 100}

NoGrad == [p \in {} |-> 0]

\* Gradient magnitude 600 along row y from column x1 to column x2.
Streak(x1, x2, y) == [p \in (x1 .. x2) \X {y} |-> 600]

\* The same, the right half of the streak fainter.
Fading(x1, x2, y) ==
    [p \in (x1 .. x2) \X {y} |-> IF 2 * p[1] > x1 + x2 THEN 150 ELSE 600]

File(n, w, h, g) == [name |-> n, valid |-> TRUE, w |-> w, h |-> h, grad |-> g]

\* A file whose bytes cv2.imdecode cannot decode.
Corrupt == [name |-> "corrupt.png", valid |-> FALSE, w |-> 0, h |-> 0,
            grad |-> NoGrad]

\* The files the uploader offers.
Catalogue ==
    {Corrupt,
     File("blank.png", 30, 30, NoGrad),
     File("dot.png", 30, 30, Streak(10, 10, 10)),
     File("speck.png", 100, 90, Streak(50, 50, 40)),
     File("hairline.png", 207, 87, Streak(100, 103, 40)),
     File("pair.png", 40, 30, Streak(5, 5, 12) @@ Streak(20, 22, 3)),
     File("crack.png", 80, 40, Fading(10, 69, 20))}

\* The sequences over S of length 1 .. n.
RECURSIVE Batches(_, _)
Batches(S, n) ==
    IF n = 0 THEN {}
    ELSE {<<f>> : f \in S}
         \cup Batches(S, n - 1)
         \cup {Append(b, f) : b \in Batches(S, n - 1), f \in S}

\* The subsets of S of at most n elements.
RECURSIVE UpTo(_, _)
UpTo(S, n) ==
    IF n = 0 THEN {{}}
    ELSE UpTo(S, n - 1) \cup {T \cup {x} : T \in UpTo(S, n - 1), x \in S}

GradLevels == {120, 600}

\* The small images: every gradient field on the two-row grid of width
\* GridW with at most MaxSeeds nonzero cells.
SmallFiles ==
    {File("small.png", GridW, 2, g) :
        g \in UNION {[T -> GradLevels] : T \in UpTo(Grid(GridW, 2), MaxSeeds)}}

(***************************************************************************)
(* The script run (lines 20-78, 122-123).                                  *)
(***************************************************************************)
Unset == <<>>

Init ==
    /\ sensitivity = 100
    /\ min_area = 100
    /\ uploaded_files = <<>>
    /\ pc = "sidebar"
    /\ idx = 1
    /\ results_list = <<>>
    /\ heap = <<>>
    /\ img = 0
    /\ img_rgb = 0
    /\ overlay = 0
    /\ edges = {}
    /\ dilated = {}
    /\ density = <<0, 1>>
    /\ status = ""
    /\ color = Unset
    /\ count = 0
    /\ contours = <<>>
    /\ drawn = <<>>

locals == <<heap, img, img_rgb, overlay, edges, dilated, density, status,
            color, count, contours, drawn>>

\* line 24: the slider is moved
Slider ==
    /\ pc = "sidebar"
    /\ \E v \in SliderValues : sensitivity' = v
    /\ UNCHANGED <<min_area, uploaded_files, pc, idx, results_list, locals>>

\* line 25: a number is typed; nothing bounds it
NumberInput ==
    /\ pc = "sidebar"
    /\ \E v \in MinAreaValues : min_area' = v
    /\ UNCHANGED <<sensitivity, uploaded_files, pc, idx, results_list, locals>>

\* lines 33-36: files are uploaded and the loop is entered
Upload ==
    /\ pc = "sidebar"
    /\ \E b \in Batches(Catalogue, MaxBatch) : uploaded_files' = b
    /\ pc' = "loop"
    /\ UNCHANGED <<sensitivity, min_area, idx, results_list, locals>>

\* lines 35, 122-123: no file is uploaded
NoUpload ==
    /\ pc = "sidebar"
    /\ pc' = "info"
    /\ UNCHANGED <<sensitivity, min_area, uploaded_files, idx, results_list,
                   locals>>

\* results_list.insert(0, record)
InsertResult(list, rec) == <<rec>> \o list

\* results_list.append(record)
AppendResult(list, rec) == Append(list, rec)

\* lines 38-76: one iteration of the loop on a file that decodes
Analyse ==
    /\ pc = "loop"
    /\ idx <= Len(uploaded_files)
    /\ uploaded_files[idx].valid
    /\ LET f    == uploaded_files[idx]
           h1   == Append(heap, imdecode(f))
           h2   == Append(h1, cvtColorRGB(h1[Len(h1)]))
           e    == Canny(f.grad, sensitivity)
           d    == Dilate(e, f.w, f.h)
           dens == Density(d, f.w, f.h)
           risk == Risk(dens)
           cs   == findContours(d)
           cp   == copy(h2, Len(h2))
           st   == DrawLoop(cs, 1, [heap |-> cp.heap, count |-> 0,
                                    drawn |-> <<>>],
                            min_area, cp.ref, risk.color)
       IN  /\ img' = Len(h1)
           /\ img_rgb' = Len(h2)
           /\ edges' = e
           /\ dilated' = d
           /\ density' = dens
           /\ status' = risk.status
           /\ color' = risk.color
           /\ contours' = cs
           /\ overlay' = cp.ref
           /\ heap' = st.heap
           /\ count' = st.count
           /\ drawn' = st.drawn
           /\ results_list' = AppendResult(results_list,
                  [name |-> f.name, density |-> Round4(dens),
                   count |-> st.count, status |-> risk.status,
                   img |-> cp.ref])
    /\ idx' = idx + 1
    /\ UNCHANGED <<sensitivity, min_area, uploaded_files, pc>>

\* lines 41-42 on bytes that do not decode: imdecode returns None and
\* cvtColor raises on it; nothing catches the exception and the run ends
DecodeError ==
    /\ pc = "loop"
    /\ idx <= Len(uploaded_files)
    /\ ~ uploaded_files[idx].valid
    /\ pc' = "exception"
    /\ img' = 0
    /\ UNCHANGED <<sensitivity, min_area, uploaded_files, idx, results_list,
                   heap, img_rgb, overlay, edges, dilated, density, status,
                   color, count, contours, drawn>>

\* line 78: the loop is over and the results are handed to the display
BuildFrame ==
    /\ pc = "loop"
    /\ idx > Len(uploaded_files)
    /\ pc' = "done"
    /\ UNCHANGED <<sensitivity, min_area, uploaded_files, idx, results_list,
                   locals>>

Next == Slider \/ NumberInput \/ Upload \/ NoUpload \/ Analyse \/ DecodeError
        \/ BuildFrame

Spec == Init /\ [][Next]_vars

\* One small image, uploaded alone, under every setting.
InitSmall ==
    /\ sensitivity \in SliderValues
    /\ min_area \in MinAreaValues
    /\ \E f \in SmallFiles : uploaded_files = <<f>>
    /\ pc = "loop"
    /\ idx = 1
    /\ results_list = <<>>
    /\ heap = <<>>
    /\ img = 0
    /\ img_rgb = 0
    /\ overlay = 0
    /\ edges = {}
    /\ dilated = {}
    /\ density = <<0, 1>>
    /\ status = ""
    /\ color = Unset
    /\ count = 0
    /\ contours = <<>>
    /\ drawn = <<>>

NextSmall == Analyse \/ BuildFrame

SpecSmall == InitSmall /\ [][NextSmall]_vars

\* One catalogue image, uploaded alone, under every setting.
InitSingle ==
    /\ sensitivity \in SliderValues
    /\ min_area \in MinAreaValues
    /\ \E f \in Catalogue : f.valid /\ uploaded_files = <<f>>
    /\ pc = "loop"
    /\ idx = 1
    /\ results_list = <<>>
    /\ heap = <<>>
    /\ img = 0
    /\ img_rgb = 0
    /\ overlay = 0
    /\ edges = {}
    /\ dilated = {}
    /\ density = <<0, 1>>
    /\ status = ""
    /\ color = Unset
    /\ count = 0
    /\ contours = <<>>
    /\ drawn = <<>>

SpecSingle == InitSingle /\ [][NextSmall]_vars

(***************************************************************************)
(* Properties.                                                             *)
(***************************************************************************)
\* An iteration of the loop has completed: the locals hold its values.
Analysed == idx > 1

\* The file of the last completed iteration.
LastFile == uploaded_files[idx - 1]

Rects(buf) == SelectSeq(buf.ink, LAMBDA op : op.kind = "rect")

Texts(buf) == SelectSeq(buf.ink, LAMBDA op : op.kind = "text")

\* C1: the tier is SAFE iff density < 0.1, WARNING iff 0.1 <= density < 1.0
\* and CRITICAL iff density >= 1.0, for every density in [0, 100]; exactly
\* one tier is assigned, with 0.1 itself WARNING and 1.0 itself CRITICAL,
\* and the colour is green, yellow, red for the three tiers.
C1_TierByThreshold ==
    Analysed =>
        LET n == density[1]
            d == density[2]
        IN  /\ d > 0 /\ 0 <= n /\ n <= 100 * d
            /\ status \in {"SAFE", "WARNING", "CRITICAL"}
            /\ (status = "SAFE") <=> (10 * n < d)
            /\ (status = "WARNING") <=> (10 * n >= d /\ n < d)
            /\ (status = "CRITICAL") <=> (n >= d)
            /\ (10 * n = d) => status = "WARNING"
            /\ (n = d) => status = "CRITICAL"
            /\ color = CASE status = "SAFE" -> <<0, 255, 0>>
                         [] status = "WARNING" -> <<255, 255, 0>>
                         [] status = "CRITICAL" -> <<255, 0, 0>>

\* A batch whose first image has density 0.1 exactly and whose second has
\* density 1.0 exactly.
C1_Witness ==
    /\ Len(results_list) = 2
    /\ results_list[1].density = <<1000, 10000>>
    /\ results_list[1].status = "WARNING"
    /\ density[1] = density[2]
    /\ status = "CRITICAL"

\* C2: when a buffer of the batch does not decode, every other image of
\* the batch, before and after it, still gets its record: once the run is
\* over, every file that decodes has a record.
C2_DecodeFailureIsolated ==
    pc \in {"done", "exception"} =>
        \A k \in 1 .. Len(uploaded_files) :
            uploaded_files[k].valid =>
                \E j \in 1 .. Len(results_list) :
                    results_list[j].name = uploaded_files[k].name

\* The density, tier and region count of one image under the settings.
RecordOf(f) ==
    LET d  == Dilate(Canny(f.grad, sensitivity), f.w, f.h)
        cs == findContours(d)
    IN  [name |-> f.name,
         density |-> Round4(<<Cardinality(d) * 100, f.w * f.h>>),
         status |-> Risk(<<Cardinality(d) * 100, f.w * f.h>>).status,
         count |-> Cardinality({k \in 1 .. Len(cs) :
                                   contourArea2(cs[k]) > 2 * min_area})]

\* C3: at every point of the batch the results are one complete record per
\* image processed so far, in submission order, the i-th carrying the name
\* of the i-th file and the density, tier and count of that image alone;
\* after a batch of n images that decode there are n records.
C3_OneRecordPerImageInOrder ==
    pc \in {"loop", "done", "exception"} =>
        /\ Len(results_list) = idx - 1
        /\ \A k \in 1 .. Len(results_list) :
               LET r == results_list[k]
                   e == RecordOf(uploaded_files[k])
               IN  /\ r.name = e.name
                   /\ r.density = e.density
                   /\ r.status = e.status
                   /\ r.count = e.count
                   /\ r.img \in 1 .. Len(heap)
        /\ pc = "done" => Len(results_list) = Len(uploaded_files)

\* A finished batch of two images whose records differ.
C3_Witness ==
    /\ pc = "done"
    /\ Len(results_list) = 2
    /\ results_list[1].name # results_list[2].name
    /\ results_list[1].status # results_list[2].status
    /\ results_list[1].count > results_list[2].count

KeptContours == {drawn[j].cnt : j \in 1 .. Len(drawn)}

C6_MinAreaNeverNegative == Analysed => min_area >= 0

\* The cutoffs the relational properties compare the run's own with.
Cutoffs == MinAreaValues \cup (0 .. GridW)

\* The region count of the last image under cutoff m.
CountWith(m) ==
    DrawLoop(contours, 1, [heap |-> heap, count |-> 0, drawn |-> <<>>],
             m, overlay, color).count

\* C7: for a fixed image and edge mask and cutoffs a <= b, the region count
\* with min_area = b is at most the region count with min_area = a.
C7_CountMonotoneInMinArea ==
    Analysed =>
        /\ count = CountWith(min_area)
        /\ \A b \in Cutoffs :
               /\ b >= min_area => CountWith(b) <= count
               /\ b <= min_area => CountWith(b) >= count

\* Two regions counted, and none under a larger cutoff.
C7_Witness ==
    /\ Analysed
    /\ count = 2
    /\ \E b \in Cutoffs : b > min_area /\ CountWith(b) = 0

\* The sensitivities the relational properties compare the run's own with:
\* the slider's ends and the values around which a gradient level crosses a
\* threshold.
Sensitivities == SliderValues \cup {47, 48, 119, 120}

\* C8: for a fixed image and sensitivities s1 <= s2, the edge cells found
\* with s2 are a subset of those found with s1, and after the dilation the
\* edge count and the density with s2 are at most those with s1.
C8_EdgesShrinkWithSensitivity ==
    Analysed =>
        LET f == LastFile
        IN  /\ edges = Canny(f.grad, sensitivity)
            /\ \A s \in Sensitivities :
                   LET e == Canny(f.grad, s)
                       d == Dilate(e, f.w, f.h)
                       n == Density(d, f.w, f.h)
                   IN  /\ s >= sensitivity =>
                           /\ e \subseteq edges
                           /\ Cardinality(d) <= Cardinality(dilated)
                           /\ n[1] * density[2] <= density[1] * n[2]
                       /\ s <= sensitivity =>
                           /\ edges \subseteq e
                           /\ Cardinality(d) >= Cardinality(dilated)
                           /\ n[1] * density[2] >= density[1] * n[2]

\* A cell between the thresholds kept through its strong neighbour, and
\* lost, with part of the density, at a higher sensitivity.
C8_Witness ==
    /\ Analysed
    /\ \E p \in edges : LastFile.grad[p] <= CannyHigh(sensitivity)
    /\ \E s \in Sensitivities :
           /\ s > sensitivity
           /\ Canny(LastFile.grad, s) # {}
           /\ Canny(LastFile.grad, s) # edges
           /\ Cardinality(Dilate(Canny(LastFile.grad, s), LastFile.w,
                                 LastFile.h)) < Cardinality(dilated)

\* The cells of a buffer that no drawing call on it covers.
Untouched(buf) ==
    {p \in Grid(buf.w, buf.h) :
        \A k \in 1 .. Len(buf.ink) : ~ Covers(buf.ink[k], p)}

\* C9: boxes and labels are drawn on a copy only: after the pipeline ran on
\* an image the decoded image is unchanged, the annotated image is another
\* buffer of the same width and height, and every annotated pixel outside
\* all boxes and labels is the source pixel.
C9_DrawsOnCopyOnly ==
    (Analysed /\ pc # "exception") =>
        LET src == imdecode(LastFile)
            ann == heap[overlay]
        IN  /\ heap[img] = src
            /\ heap[img_rgb] = cvtColorRGB(src)
            /\ overlay \notin {img, img_rgb}
            /\ ann.w = src.w /\ ann.h = src.h
            /\ \A p \in Untouched(ann) :
                   /\ PixelAt(ann, p) = PixelAt(heap[img_rgb], p)
                   /\ PixelAt(ann, p) = SwapRB(PixelAt(src, p))

\* A box and a label drawn in the image, over a dark source pixel, with a
\* dark source pixel left outside them.
C9_Witness ==
    /\ Analysed
    /\ count > 0
    /\ LET ann == heap[overlay]
       IN  /\ \E p \in DOMAIN ann.px : PixelAt(ann, p) = color
           /\ \E p \in DOMAIN ann.px : p \in Untouched(ann)
           /\ \E p \in Grid(ann.w, ann.h) : Covers(Texts(ann)[1], p)

\* C10: in every record the stored tier is the tier the thresholds assign
\* to the stored density.
C10_StoredTierMatchesStoredDensity ==
    \A k \in 1 .. Len(results_list) :
        LET n == results_list[k].density[1]
            d == results_list[k].density[2]
        IN  results_list[k].status =
                IF 10 * n < d THEN "SAFE"
                ELSE IF n < d THEN "WARNING" ELSE "CRITICAL"

====
